---------------------------- MODULE Spec2Model ----------------------------
(***************************************************************************)
(* RFQ / Quote negotiation and atomic settlement construction of           *)
(* src/rfq_otc.py (LiquidRFQProtocol and OTCDesk), with the decimal        *)
(* arithmetic the code performs under getcontext().prec = 16.              *)
(*                                                                         *)
(* A Decimal is the record [sign, int, exp] of Python's decimal module:    *)
(* sign 0 or 1, int the coefficient as a sequence of decimal digits (most  *)
(* significant first, <<0>> for zero), exp the exponent.  Coefficients     *)
(* exceed the range of machine integers (49950.00000000 is 4995000000000   *)
(* units of 1E-8), so all arithmetic is done on the digit sequences.       *)
(***************************************************************************)
EXTENDS Integers, Sequences, FiniteSets, TLC

----------------------------------------------------------------------------
(* Natural numbers as digit sequences                                      *)

RECURSIVE Zeros(_)
Zeros(n) == IF n <= 0 THEN <<>> ELSE <<0>> \o Zeros(n - 1)

RECURSIVE Rev(_)
Rev(s) == IF s = <<>> THEN <<>> ELSE Rev(Tail(s)) \o <<Head(s)>>

RECURSIVE Strip(_)
\* drop leading zeros, keeping one digit
Strip(s) == IF Len(s) > 1 /\ Head(s) = 0 THEN Strip(Tail(s))
            ELSE IF s = <<>> THEN <<0>> ELSE s

IsZeroNat(a) == Strip(a) = <<0>>

RECURSIVE AllZero(_)
AllZero(s) == s = <<>> \/ (Head(s) = 0 /\ AllZero(Tail(s)))

RECURSIVE LexCmp(_, _)
\* equal-length digit sequences: -1, 0 or 1
LexCmp(a, b) == IF a = <<>> THEN 0
                ELSE IF Head(a) < Head(b) THEN -1
                ELSE IF Head(a) > Head(b) THEN 1
                ELSE LexCmp(Tail(a), Tail(b))

NatCmp(a, b) == LET x == Strip(a)
                    y == Strip(b)
                IN  IF Len(x) < Len(y) THEN -1
                    ELSE IF Len(x) > Len(y) THEN 1
                    ELSE LexCmp(x, y)

RECURSIVE LEAdd(_, _, _)
\* least-significant-first addition with carry
LEAdd(a, b, c) ==
    IF a = <<>> /\ b = <<>> THEN (IF c = 0 THEN <<>> ELSE <<c>>)
    ELSE LET x == IF a = <<>> THEN 0 ELSE Head(a)
             y == IF b = <<>> THEN 0 ELSE Head(b)
             s == x + y + c
         IN  <<s % 10>> \o LEAdd(IF a = <<>> THEN <<>> ELSE Tail(a),
                                 IF b = <<>> THEN <<>> ELSE Tail(b), s \div 10)

RECURSIVE LESub(_, _, _)
\* least-significant-first subtraction a - b - borrow, for a >= b
LESub(a, b, w) ==
    IF a = <<>> THEN <<>>
    ELSE LET y == IF b = <<>> THEN 0 ELSE Head(b)
             s == Head(a) - y - w
         IN  <<(s + 10) % 10>> \o LESub(Tail(a), IF b = <<>> THEN <<>> ELSE Tail(b),
                                        IF s < 0 THEN 1 ELSE 0)

RECURSIVE LEMulDigit(_, _, _)
LEMulDigit(a, d, c) ==
    IF a = <<>> THEN (IF c = 0 THEN <<>> ELSE <<c>>)
    ELSE LET s == Head(a) * d + c
         IN  <<s % 10>> \o LEMulDigit(Tail(a), d, s \div 10)

RECURSIVE LEMul(_, _)
LEMul(a, b) == IF b = <<>> THEN <<>>
               ELSE LEAdd(LEMulDigit(a, Head(b), 0), <<0>> \o LEMul(a, Tail(b)), 0)

NatAdd(a, b) == Strip(Rev(LEAdd(Rev(a), Rev(b), 0)))
NatSub(a, b) == Strip(Rev(LESub(Rev(a), Rev(b), 0)))
NatMul(a, b) == Strip(Rev(LEMul(Rev(a), Rev(b))))
NatInc(a) == NatAdd(a, <<1>>)
\* a * 10^n
NatShift(a, n) == Strip(a \o Zeros(n))

RECURSIVE QuotDigit(_, _, _)
\* how many times b fits in r (at most 9 by construction of long division)
QuotDigit(r, b, k) == IF NatCmp(r, b) < 0 THEN [d |-> k, r |-> r]
                      ELSE QuotDigit(NatSub(r, b), b, k + 1)

RECURSIVE LongDiv(_, _, _, _)
LongDiv(a, b, q, r) ==
    IF a = <<>> THEN [q |-> Strip(q), r |-> Strip(r)]
    ELSE LET step == QuotDigit(Strip(r \o <<Head(a)>>), b, 0)
         IN  LongDiv(Tail(a), b, q \o <<step.d>>, step.r)

\* divmod(a, b) for b > 0
NatDivMod(a, b) == LongDiv(a, Strip(b), <<>>, <<0>>)

RECURSIVE NatOfInt(_)
NatOfInt(n) == IF n < 10 THEN <<n>> ELSE NatOfInt(n \div 10) \o <<n % 10>>

----------------------------------------------------------------------------
(* decimal.Decimal under the module's context: prec = 16, ROUND_HALF_EVEN, *)
(* InvalidOperation and DivisionByZero trapped (raised).                   *)

\* getcontext().prec = 16
Prec == 16

\* exponent of Decimal("0.00000001"), the argument of every quantize call
QuantExp == -8

Dec(s, i, e) == [sign |-> s, int |-> i, exp |-> e]

\* the outcome of an operation that raised (InvalidOperation, DivisionByZero):
\* it propagates through later operations up to the handler's result
Raised == [sign |-> 0, int |-> <<>>, exp |-> 0]

IsRaised(d) == d.int = <<>>

IsZero(d) == AllZero(d.int)

Min(x, y) == IF x < y THEN x ELSE y
Max(x, y) == IF x > y THEN x ELSE y

\* Decimal._round_half_even: the first k digits of coefficient c, rounded on
\* the discarded digits (0 <= k < Len(c))
RoundHalfEven(c, k) ==
    IF IF c[k + 1] = 5 /\ AllZero(SubSeq(c, k + 2, Len(c)))
       THEN k > 0 /\ c[k] % 2 = 1
       ELSE c[k + 1] >= 5
    THEN NatInc(SubSeq(c, 1, k))
    ELSE Strip(SubSeq(c, 1, k))

\* Decimal._fix: round to the context precision
\* the rounded coefficient c may have grown to prec + 1 digits
FixRounded(sign, c, expMin) ==
    IF Len(c) > Prec THEN Dec(sign, SubSeq(c, 1, Prec), expMin + 1)
    ELSE Dec(sign, c, expMin)

Fix(d) ==
    IF IsRaised(d) \/ Len(d.int) <= Prec THEN d
    ELSE FixRounded(d.sign, RoundHalfEven(d.int, Prec), Len(d.int) + d.exp - Prec)

\* Decimal._rescale(e, ROUND_HALF_EVEN)
Rescale(d, e) ==
    IF IsZero(d) THEN Dec(d.sign, <<0>>, e)
    ELSE IF d.exp >= e THEN Dec(d.sign, NatShift(d.int, d.exp - e), e)
    ELSE Dec(d.sign,
             RoundHalfEven(IF Len(d.int) + d.exp - e < 0 THEN <<1>> ELSE d.int,
                           Max(0, Len(d.int) + d.exp - e)),
             e)

\* Decimal.quantize(Decimal("1E<e>")): InvalidOperation when the result needs
\* more than prec digits
TooManyDigits(ans) == IF Len(ans.int) > Prec THEN Raised ELSE ans

Quantize(d, e) ==
    IF IsRaised(d) THEN Raised
    ELSE IF IsZero(d) THEN Dec(d.sign, <<0>>, e)
    ELSE IF (Len(d.int) + d.exp - 1) - e + 1 > Prec THEN Raised
    ELSE TooManyDigits(Rescale(d, e))

Neg(d) == IF IsRaised(d) THEN d ELSE Dec(1 - d.sign, d.int, d.exp)

\* Decimal.__mul__
Mul(a, b) ==
    IF IsRaised(a) \/ IsRaised(b) THEN Raised
    ELSE Fix(Dec(IF a.sign = b.sign THEN 0 ELSE 1,
                 IF IsZero(a) \/ IsZero(b) THEN <<0>> ELSE NatMul(a.int, b.int),
                 a.exp + b.exp))

\* decimal._normalize: bring two operands to the same exponent; tmp is the
\* operand with the larger exponent, and an operand too small to matter
\* is replaced by 1 at the last relevant position
NormalizeOther(tmp, other) ==
    IF Len(other.int) + other.exp - 1 < tmp.exp + Min(-1, Len(tmp.int) - Prec - 2)
    THEN Dec(other.sign, <<1>>, tmp.exp + Min(-1, Len(tmp.int) - Prec - 2))
    ELSE other

NormalizeTmp(tmp, o2) == Dec(tmp.sign, NatShift(tmp.int, tmp.exp - o2.exp), o2.exp)

\* the sum of two operands of the same exponent; c compares the coefficients
AlignedSum(x, y, c, e) ==
    IF x.sign = y.sign THEN Dec(x.sign, NatAdd(x.int, y.int), x.exp)
    ELSE IF c = 0 THEN Dec(0, <<0>>, e)
    ELSE IF c > 0 THEN Dec(x.sign, NatSub(x.int, y.int), x.exp)
    ELSE Dec(y.sign, NatSub(y.int, x.int), x.exp)

AddAligned(x, y, e) == AlignedSum(x, y, NatCmp(x.int, y.int), e)

AddNormalized(tmp, o2, e) == AddAligned(NormalizeTmp(tmp, o2), o2, e)

\* Decimal.__add__
Add(a, b) ==
    IF IsRaised(a) \/ IsRaised(b) THEN Raised
    ELSE Fix(IF IsZero(a) /\ IsZero(b)
             THEN Dec(Min(a.sign, b.sign), <<0>>, Min(a.exp, b.exp))
             ELSE IF IsZero(a)
             THEN Rescale(b, Max(Min(a.exp, b.exp), b.exp - Prec - 1))
             ELSE IF IsZero(b)
             THEN Rescale(a, Max(Min(a.exp, b.exp), a.exp - Prec - 1))
             ELSE IF a.exp < b.exp
             THEN AddNormalized(b, NormalizeOther(b, a), Min(a.exp, b.exp))
             ELSE AddNormalized(a, NormalizeOther(a, b), Min(a.exp, b.exp)))

\* Decimal.__sub__
Sub(a, b) == Add(a, Neg(b))

RECURSIVE DropZeros(_, _, _)
\* an exact quotient is brought as close to the ideal exponent as possible
DropZeros(c, e, ideal) ==
    IF e < ideal /\ Len(c) > 1 /\ c[Len(c)] = 0
    THEN DropZeros(SubSeq(c, 1, Len(c) - 1), e + 1, ideal)
    ELSE [c |-> c, e |-> e]

\* the quotient coefficient q at exponent e: made odd-ish when inexact so the
\* rounding to prec digits is correct, else reduced towards the ideal exponent
DivResult(s, qr, e, ideal) ==
    IF ~IsZeroNat(qr.r)
    THEN Dec(s, IF qr.q[Len(qr.q)] % 5 = 0 THEN NatInc(qr.q) ELSE qr.q, e)
    ELSE Dec(s, DropZeros(qr.q, e, ideal).c, DropZeros(qr.q, e, ideal).e)

DivShifted(a, b, shift) ==
    DivResult(IF a.sign = b.sign THEN 0 ELSE 1,
              NatDivMod(NatShift(a.int, Max(shift, 0)),
                        NatShift(b.int, Max(0 - shift, 0))),
              a.exp - b.exp - shift, a.exp - b.exp)

\* Decimal.__truediv__: DivisionByZero / InvalidOperation for a zero divisor
Div(a, b) ==
    IF IsRaised(a) \/ IsRaised(b) THEN Raised
    ELSE IF IsZero(b) THEN Raised
    ELSE IF IsZero(a) THEN Dec(IF a.sign = b.sign THEN 0 ELSE 1, <<0>>, a.exp - b.exp)
    ELSE Fix(DivShifted(a, b, Len(Strip(b.int)) - Len(Strip(a.int)) + Prec + 1))

CmpSigned(sign, c) == IF sign = 0 THEN c ELSE 0 - c

\* Decimal._cmp on finite values: -1, 0 or 1
Cmp(a, b) ==
    IF IsZero(a) /\ IsZero(b) THEN 0
    ELSE IF IsZero(a) THEN (IF b.sign = 0 THEN -1 ELSE 1)
    ELSE IF IsZero(b) THEN (IF a.sign = 0 THEN 1 ELSE -1)
    ELSE IF a.sign # b.sign THEN (IF a.sign = 0 THEN 1 ELSE -1)
    ELSE CmpSigned(a.sign,
                   NatCmp(NatShift(a.int, a.exp - Min(a.exp, b.exp)),
                          NatShift(b.int, b.exp - Min(a.exp, b.exp))))

DecGE(a, b) == Cmp(a, b) >= 0
DecGT(a, b) == Cmp(a, b) > 0
DecLT(a, b) == Cmp(a, b) < 0
\* Decimal == compares values, not representations
DecEq(a, b) == ~IsRaised(a) /\ ~IsRaised(b) /\ Cmp(a, b) = 0

DigitChar == <<"0", "1", "2", "3", "4", "5", "6", "7", "8", "9">>

RECURSIVE Chars(_)
Chars(s) == IF s = <<>> THEN <<>> ELSE <<DigitChar[Head(s) + 1]>> \o Chars(Tail(s))

\* "E" and the signed exponent, or nothing for exponent 0
ExpPart(x) ==
    IF x = 0 THEN <<>>
    ELSE <<"E", IF x < 0 THEN "-" ELSE "+">> \o Chars(NatOfInt(IF x < 0 THEN 0 - x ELSE x))

StrAt(sign, c, n, dotplace, leftdigits) ==
    (IF sign = 1 THEN <<"-">> ELSE <<>>)
    \o (IF dotplace <= 0 THEN <<"0", ".">> \o Chars(Zeros(0 - dotplace) \o c)
        ELSE IF dotplace >= n THEN Chars(c \o Zeros(dotplace - n))
        ELSE Chars(SubSeq(c, 1, dotplace)) \o <<".">> \o Chars(SubSeq(c, dotplace + 1, n)))
    \o ExpPart(leftdigits - dotplace)

\* Decimal.__str__ (scientific string), as a sequence of characters
DecStr(d) ==
    StrAt(d.sign, d.int, Len(d.int),
          IF d.exp <= 0 /\ d.exp + Len(d.int) > -6 THEN d.exp + Len(d.int) ELSE 1,
          d.exp + Len(d.int))

DigitOf(c) == CHOOSE d \in 0..9 : DigitChar[d + 1] = c

\* index of the first character of s that is in cs, 0 when there is none
PosOf(s, cs) ==
    LET I == {i \in 1..Len(s) : s[i] \in cs}
    IN  IF I = {} THEN 0 ELSE CHOOSE i \in I : \A j \in I : i <= j

RECURSIVE IntOfChars(_, _)
IntOfChars(s, acc) == IF s = <<>> THEN acc
                      ELSE IntOfChars(Tail(s), acc * 10 + DigitOf(Head(s)))

SignedIntOfChars(s) ==
    IF Head(s) = "-" THEN 0 - IntOfChars(Tail(s), 0)
    ELSE IF Head(s) = "+" THEN IntOfChars(Tail(s), 0)
    ELSE IntOfChars(s, 0)

DigitsOf(ds) == Strip([i \in 1..Len(ds) |-> DigitOf(ds[i])])

\* mantissa split at the decimal point dot (0: no point)
ParseMantissa(sign, mant, dot, expo) ==
    IF dot = 0 THEN Dec(sign, DigitsOf(mant), expo)
    ELSE Dec(sign,
             DigitsOf(SubSeq(mant, 1, dot - 1) \o SubSeq(mant, dot + 1, Len(mant))),
             expo - (Len(mant) - dot))

\* body split at the exponent marker epos (0: no exponent)
ParseBody(sign, body, epos) ==
    IF epos = 0 THEN ParseMantissa(sign, body, PosOf(body, {"."}), 0)
    ELSE ParseMantissa(sign, SubSeq(body, 1, epos - 1),
                       PosOf(SubSeq(body, 1, epos - 1), {"."}),
                       SignedIntOfChars(SubSeq(body, epos + 1, Len(body))))

ParseUnsigned(sign, body) == ParseBody(sign, body, PosOf(body, {"E", "e"}))

\* Decimal(<string>): the numeric string of str(float) or str(Decimal)
DecParse(s) ==
    ParseUnsigned(IF Head(s) = "-" THEN 1 ELSE 0,
                  IF Head(s) \in {"-", "+"} THEN Tail(s) ELSE s)

----------------------------------------------------------------------------
(* Values                                                                  *)

\* the value of an absent object (Python's None)
None == [none |-> TRUE]

ClientAddr == "client_addr"
DealerAddr == "dealer_addr"
DeskId == "Dealer_Alpha"
\* OTCDesk.lbtc_asset = dumpassetlabels()["bitcoin"]
LbtcAsset == "LBTC"
UsdtAsset == "USDT"
OtherAsset == "OTHER"

\* str(x) of the float arguments the operations are called with
Str_0_0 == <<"0", ".", "0">>
Str_0_5 == <<"0", ".", "5">>
Str_1_0 == <<"1", ".", "0">>
Str_1e_07 == <<"1", "e", "-", "0", "7">>
Str_1_0000000002001 ==
    <<"1", ".", "0", "0", "0", "0", "0", "0", "0", "0", "0", "2", "0", "0", "1">>
Str_2_0 == <<"2", ".", "0">>
Str_2003_0 == <<"2", "0", "0", "3", ".", "0">>
Str_6_45 == <<"6", ".", "4", "5">>
Str_8_8e_07 == <<"8", ".", "8", "e", "-", "0", "7">>
Str_49950_0 == <<"4", "9", "9", "5", "0", ".", "0">>
Str_49950_00000001 ==
    <<"4", "9", "9", "5", "0", ".", "0", "0", "0", "0", "0", "0", "0", "1">>
Str_100000_0 == <<"1", "0", "0", "0", "0", "0", ".", "0">>
Str_1_0001 == <<"1", ".", "0", "0", "0", "1">>
Str_1_00010001 == <<"1", ".", "0", "0", "0", "1", "0", "0", "0", "1">>

\* Decimal("50000"), Decimal("1"), Decimal("0.001"), Decimal("0.0001"),
\* Decimal("0"), Decimal("0.00000001")
MidPrice == Dec(0, <<5, 0, 0, 0, 0>>, 0)
One == Dec(0, <<1>>, 0)
SpreadBps == Dec(0, <<1>>, -3)
FlatFee == Dec(0, <<1>>, -4)
DecZero == Dec(0, <<0>>, 0)
MinUnit == Dec(0, <<1>>, -8)

\* "expiry_time": int(time.time()) + 120
QuoteLifetime == 120

\* csv_delay: int = 10
CsvDelay == 10

\* bounds of the model: the clock runs to MaxNow in steps of TickSteps
MaxNow == 200
TickSteps == {200}
\* (asset_to_sell, asset_to_buy, str(approx_amount), expiry_seconds)
\* arguments of create_rfq
RfqArgs ==
    {<<LbtcAsset, UsdtAsset, Str_1_0, 300>>,
     <<LbtcAsset, UsdtAsset, Str_1_0, 60>>,
     <<LbtcAsset, OtherAsset, Str_1_0, 300>>,
     <<UsdtAsset, LbtcAsset, Str_1_0, 300>>,
     <<LbtcAsset, UsdtAsset, Str_1_0000000002001, 300>>,
     <<LbtcAsset, UsdtAsset, Str_2003_0, 300>>,
     <<LbtcAsset, UsdtAsset, Str_0_0, 300>>,
     <<LbtcAsset, UsdtAsset, Str_1e_07, 300>>}
\* (exact_sell, exact_buy) arguments of a direct dealer_quote call
DirectQuoteArgs == {<<Str_1_0, Str_49950_0>>, <<Str_8_8e_07, Str_6_45>>,
                    <<Str_8_8e_07, Str_100000_0>>}

----------------------------------------------------------------------------
(* Signing collaborator: a signature is valid for exactly the (address,    *)
(* message) pair that was signed                                           *)

signmessage(address, message) == [signer |-> address, message |-> message]

verifymessage(address, signature, message) ==
    signature = [signer |-> address, message |-> message]

\* hashlib.sha256(f"{client_addr}{time.time()}").hexdigest()[:16]: an
\* identifier determined by the address and the time
RfqId(client_addr, t) == [sha256 |-> <<client_addr, t>>]

----------------------------------------------------------------------------
(* State                                                                   *)

VARIABLES
    now,     \* time.time(), in seconds
    rfq,     \* the RFQ under negotiation, or None
    quote,   \* the Quote returned by the last quote call, or None
    qres,    \* outcome of the last quote call, or None
    plan,    \* outcome of the last create_atomic_settlement call, or None
    exec,    \* outcome of the last sign_and_broadcast call, or None
    vres     \* outcome of the last verify_rfq / verify_quote call, or None

vars == <<now, rfq, quote, qres, plan, exec, vres>>

----------------------------------------------------------------------------
(* LiquidRFQProtocol.create_rfq                                            *)

\* the RFQ assembled from the signed rfq_data and the Decimal amount
RfqSigned(rfq_data, approx_dec) ==
    [rfq_id |-> rfq_data.rfq_id,
     client_address |-> rfq_data.client_address,
     asset_to_sell |-> rfq_data.asset_to_sell,
     asset_to_buy |-> rfq_data.asset_to_buy,
     approx_amount |-> approx_dec,
     expiry_time |-> rfq_data.expiry_time,
     client_signature |-> signmessage(rfq_data.client_address, rfq_data)]

\* the RFQ create_rfq returns at time t; approx_str is str(approx_amount)
create_rfq(client_addr, sell_asset, buy_asset, approx_str, expiry_seconds, t) ==
    RfqSigned([rfq_id |-> RfqId(client_addr, t),
               client_address |-> client_addr,
               asset_to_sell |-> sell_asset,
               asset_to_buy |-> buy_asset,
               approx_amount |-> DecStr(DecParse(approx_str)),
               expiry_time |-> t + expiry_seconds],
              DecParse(approx_str))

----------------------------------------------------------------------------
(* LiquidRFQProtocol.dealer_quote and OTCDesk.process_rfq                  *)

\* (exact_buy_dec / exact_sell_dec).quantize(Decimal("0.00000001")): Raised
\* when the division or the quantize raises
QuotePrice(exact_buy_dec, exact_sell_dec) ==
    Quantize(Div(exact_buy_dec, exact_sell_dec), QuantExp)

\* the Quote assembled from the signed quote_data and the Decimal amounts
QuoteSigned(quote_data, exact_sell_dec, exact_buy_dec) ==
    [rfq_id |-> quote_data.rfq_id,
     dealer_id |-> quote_data.dealer_id,
     dealer_address |-> quote_data.dealer_address,
     exact_amount_sell |-> exact_sell_dec,
     exact_amount_buy |-> exact_buy_dec,
     price |-> DecParse(quote_data.price),
     expiry_time |-> quote_data.expiry_time,
     dealer_signature |-> signmessage(quote_data.dealer_address, quote_data)]

QuotePriced(r, dealer_addr, dealer_id, exact_sell_dec, exact_buy_dec, price, t) ==
    IF IsRaised(price) THEN Raised
    ELSE QuoteSigned([rfq_id |-> r.rfq_id,
                      dealer_id |-> dealer_id,
                      dealer_address |-> dealer_addr,
                      exact_amount_sell |-> DecStr(exact_sell_dec),
                      exact_amount_buy |-> DecStr(exact_buy_dec),
                      price |-> DecStr(price),
                      expiry_time |-> t + QuoteLifetime],
                     exact_sell_dec, exact_buy_dec)

QuoteOfDecimals(r, dealer_addr, dealer_id, exact_sell_dec, exact_buy_dec, t) ==
    QuotePriced(r, dealer_addr, dealer_id, exact_sell_dec, exact_buy_dec,
                QuotePrice(exact_buy_dec, exact_sell_dec), t)

\* the Quote dealer_quote returns at time t, or Raised; sell_str and buy_str
\* are str(exact_sell) and str(exact_buy)
dealer_quote(r, dealer_addr, dealer_id, sell_str, buy_str, t) ==
    QuoteOfDecimals(r, dealer_addr, dealer_id, DecParse(sell_str), DecParse(buy_str), t)

\* quoted_price = mid_price * (Decimal("1") - self.spread_bps)
QuotedPrice == Mul(MidPrice, Sub(One, SpreadBps))

\* exact_buy = (exact_sell * quoted_price).quantize(Decimal("0.00000001"))
ExactBuy(exact_sell) == Quantize(Mul(exact_sell, QuotedPrice), QuantExp)

\* whether the desk quotes the RFQ at all
DeskTrades(r) == r.asset_to_sell = LbtcAsset

DeskQuote(r, exact_sell, exact_buy, t) ==
    IF IsRaised(exact_buy) THEN Raised
    ELSE dealer_quote(r, DealerAddr, DeskId, DecStr(exact_sell), DecStr(exact_buy), t)

\* what process_rfq returns at time t: None, a Quote, or Raised
process_rfq(r, t) ==
    IF ~DeskTrades(r) THEN None
    ELSE DeskQuote(r, r.approx_amount, ExactBuy(r.approx_amount), t)

\* what a quote call was given and how it ended
QuoteOutcome(op, args, result, t) ==
    [op |-> op,
     args |-> args,
     result |-> IF result = None THEN "declined"
                ELSE IF result = Raised THEN "raised" ELSE "quote",
     at |-> t]

----------------------------------------------------------------------------
(* LiquidRFQProtocol.verify_rfq and verify_quote                           *)

\* a verification that writes the amount at 8 fractional digits
verify_rfq_QuantizedAmount(r) ==
    LET rfq_payload == [rfq_id |-> r.rfq_id,
                        client_address |-> r.client_address,
                        asset_to_sell |-> r.asset_to_sell,
                        asset_to_buy |-> r.asset_to_buy,
                        approx_amount |-> DecStr(Quantize(r.approx_amount, QuantExp)),
                        expiry_time |-> r.expiry_time]
    IN  verifymessage(r.client_address, r.client_signature, rfq_payload)

verify_rfq(r) ==
    LET rfq_payload == [rfq_id |-> r.rfq_id,
                        client_address |-> r.client_address,
                        asset_to_sell |-> r.asset_to_sell,
                        asset_to_buy |-> r.asset_to_buy,
                        approx_amount |-> DecStr(r.approx_amount),
                        expiry_time |-> r.expiry_time]
    IN  verifymessage(r.client_address, r.client_signature, rfq_payload)

\* a verification whose comparison leaves the bought amount out
verify_quote_AmountBuyUnchecked(q) ==
    LET quote_payload == [rfq_id |-> q.rfq_id,
                          dealer_id |-> q.dealer_id,
                          dealer_address |-> q.dealer_address,
                          exact_amount_sell |-> DecStr(q.exact_amount_sell),
                          exact_amount_buy |-> q.dealer_signature.message.exact_amount_buy,
                          price |-> DecStr(q.price),
                          expiry_time |-> q.expiry_time]
    IN  verifymessage(q.dealer_address, q.dealer_signature, quote_payload)

verify_quote(q) ==
    LET quote_payload == [rfq_id |-> q.rfq_id,
                          dealer_id |-> q.dealer_id,
                          dealer_address |-> q.dealer_address,
                          exact_amount_sell |-> DecStr(q.exact_amount_sell),
                          exact_amount_buy |-> DecStr(q.exact_amount_buy),
                          price |-> DecStr(q.price),
                          expiry_time |-> q.expiry_time]
    IN  verifymessage(q.dealer_address, q.dealer_signature, quote_payload)

----------------------------------------------------------------------------
(* LiquidRFQProtocol.build_joint_timelocked_address                        *)

\* getaddressinfo of the wallet: the client's key is an HD key, the
\* dealer's is not
AddressInfo(address) ==
    IF address = ClientAddr
    THEN [pubkey |-> <<"pubkey", address>>,
          hdmasterfingerprint |-> "d34db33f", hdkeypath |-> "m/84'/1776'/0'/0/0"]
    ELSE [pubkey |-> <<"pubkey", address>>,
          hdmasterfingerprint |-> "", hdkeypath |-> ""]

\* _descriptor_key: the key expression of a wallet-owned address
DescriptorKey(address) ==
    LET info == AddressInfo(address)
    IN  IF info.hdmasterfingerprint # "" /\ info.hdkeypath # ""
        THEN [origin |-> <<info.hdmasterfingerprint, info.hdkeypath>>,
              pubkey |-> info.pubkey]
        ELSE [origin |-> <<>>, pubkey |-> info.pubkey]

\* wsh(or_i(pk(dealer_key),and_v(v:pk(client_key),older(csv_delay))))
JointDescriptor(client_addr, dealer_addr, csv_delay) ==
    [wsh_or_i_pk |-> DescriptorKey(dealer_addr),
     and_v_pk |-> DescriptorKey(client_addr),
     older |-> csv_delay]

\* results of importdescriptors(...)[0]
ImportResults ==
    {[success |-> TRUE, error |-> ""],
     [success |-> FALSE, error |-> "exists"],
     [success |-> FALSE, error |-> "other"]}

\* an import check that accepts a reported success only
ImportAccepted_SuccessOnly(import_result) == import_result.success

\* if not success: raise unless the error message contains "exists"
ImportAccepted(import_result) ==
    import_result.success \/ import_result.error = "exists"

JointCalls(accepted) ==
    <<"getaddressinfo", "getaddressinfo", "getdescriptorinfo", "importdescriptors">>
    \o (IF accepted
        THEN <<"deriveaddresses", "dumpmasterblindingkey", "createblindedaddress">>
        ELSE <<>>)

\* a registration that returns no descriptor when the descriptor existed
build_joint_timelocked_address_ExistsWithoutDescriptor(client_addr, dealer_addr, import_result) ==
    LET descriptor == JointDescriptor(client_addr, dealer_addr, CsvDelay)
        accepted == ImportAccepted(import_result)
    IN  [ok |-> accepted,
         address |-> IF accepted THEN [blinded |-> [derived |-> descriptor]]
                     ELSE None,
         descriptor |-> IF import_result.success THEN descriptor ELSE None,
         calls |-> JointCalls(accepted)]

\* (confidential_address, descriptor), or the RuntimeError of a failed import
build_joint_timelocked_address(client_addr, dealer_addr, import_result) ==
    LET descriptor == JointDescriptor(client_addr, dealer_addr, CsvDelay)
        accepted == ImportAccepted(import_result)
    IN  [ok |-> accepted,
         address |-> IF accepted THEN [blinded |-> [derived |-> descriptor]]
                     ELSE None,
         descriptor |-> IF accepted THEN descriptor ELSE None,
         calls |-> JointCalls(accepted)]

----------------------------------------------------------------------------
(* LiquidRFQProtocol.create_atomic_settlement                              *)

\* one entry of listunspent; amount is str(u["amount"])
Utxo(txid, vout, asset, amount) ==
    [txid |-> txid, vout |-> vout, asset |-> asset, amount |-> amount]

\* listings listunspent may return for the dealer's and the client's address
DealerListings ==
    {<<Utxo("d1", 0, UsdtAsset, Str_0_5), Utxo("d2", 0, UsdtAsset, Str_100000_0)>>,
     <<Utxo("d3", 1, OtherAsset, Str_100000_0),
       Utxo("d4", 0, UsdtAsset, Str_49950_00000001)>>,
     <<Utxo("d1", 0, UsdtAsset, Str_0_5)>>}

ClientListings ==
    {<<Utxo("c1", 0, LbtcAsset, Str_2_0)>>,
     <<Utxo("c2", 0, LbtcAsset, Str_1_0)>>,
     <<Utxo("c3", 0, LbtcAsset, Str_0_5), Utxo("c4", 1, LbtcAsset, Str_1_0001)>>,
     <<Utxo("c5", 0, LbtcAsset, Str_1_00010001)>>}

\* which gettxout call, if any, returns nothing: 0 (none), 1 or 2
TxoutMissing == {0, 1, 2}

\* the answers the node can give to the calls a settlement call goes on to
\* make: none to a call that is never made
ImportAnswers(sel) == IF sel.status = "ok" THEN ImportResults ELSE {None}

TxoutAnswers(created) == IF created.status = "ok" THEN TxoutMissing ELSE {0}

UtxoAmount(u) == DecParse(u.amount)

RECURSIVE FirstEligible(_, _, _)
\* next((u for u in utxos if u["asset"] == asset and amount >= threshold), None)
FirstEligible(utxos, asset, threshold) ==
    IF utxos = <<>> THEN None
    ELSE IF Head(utxos).asset = asset /\ DecGE(UtxoAmount(Head(utxos)), threshold)
    THEN Head(utxos)
    ELSE FirstEligible(Tail(utxos), asset, threshold)

\* target_buy / target_sell: the quote's amounts quantized to 8 places
TargetAmount(amount) == Quantize(amount, QuantExp)

\* the client leg must also cover the fee
ClientThreshold(target_sell) == Add(target_sell, FlatFee)

DealerChange(dealer_input_amt, target_buy) ==
    Quantize(Sub(dealer_input_amt, target_buy), QuantExp)

ClientChange(client_input_amt, target_sell, fee) ==
    Quantize(Sub(Sub(client_input_amt, target_sell), fee), QuantExp)

\* an optional change output is emitted only above one minimal unit
ChangeEmitted(change) == DecGT(change, MinUnit)

Output(address, asset, amount) ==
    [address |-> address, asset |-> asset, amount |-> DecStr(amount)]

FeeOutput(fee) == [address |-> "fee", asset |-> "", amount |-> DecStr(fee)]

SettlementOutputs(r, q, protected_address, target_buy, target_sell, dealer_change, client_change, fee) ==
    <<Output(r.client_address, r.asset_to_buy, target_buy),
      Output(protected_address, r.asset_to_sell, target_sell)>>
    \o (IF ChangeEmitted(dealer_change)
        THEN <<Output(q.dealer_address, r.asset_to_buy, dealer_change)>> ELSE <<>>)
    \o (IF ChangeEmitted(client_change)
        THEN <<Output(r.client_address, r.asset_to_sell, client_change)>> ELSE <<>>)
    \o <<FeeOutput(fee)>>

ListCalls == <<"listunspent", "listunspent">>

\* the outcome record of a call that selected and built nothing; c holds the
\* call's arguments and the node's answers
PlanOutcome(status, c) ==
    [status |-> status, calls |-> ListCalls,
     target_buy |-> None, target_sell |-> None,
     dealer_utxos |-> c.dealer_utxos, client_utxos |-> c.client_utxos,
     dealer_input |-> None, client_input |-> None,
     dealer_change |-> None, client_change |-> None, fee |-> None,
     inputs |-> <<>>, outputs |-> <<>>, descriptor |-> None, pset |-> None]

GettxoutCalls(txout_missing) ==
    IF txout_missing = 1 THEN <<"gettxout">> ELSE <<"gettxout", "gettxout">>

\* the protected address is requested, the outputs are listed and the
\* unsigned PSET is created
PlanProtected(r, q, sel, joint) ==
    IF ~joint.ok
    THEN [sel EXCEPT !.status = "import_failed", !.calls = ListCalls \o joint.calls]
    ELSE [sel EXCEPT !.calls = ListCalls \o joint.calls \o <<"createpsbt">>,
                     !.outputs = SettlementOutputs(r, q, joint.address,
                                                   sel.target_buy, sel.target_sell,
                                                   sel.dealer_change, sel.client_change,
                                                   sel.fee),
                     !.descriptor = joint.descriptor]

\* fee, change and the fee-policy check
PlanChange(c, sel, dealer_change, client_change) ==
    IF IsRaised(dealer_change) \/ IsRaised(client_change)
    THEN PlanOutcome("invalid_operation", c)
    ELSE [sel EXCEPT !.status = IF DecLT(client_change, DecZero)
                                   \/ DecLT(dealer_change, DecZero)
                                THEN "fee_policy" ELSE "ok",
                     !.dealer_change = dealer_change,
                     !.client_change = client_change,
                     !.fee = FlatFee]

\* the check that both legs found an input
PlanInputs(c, target_buy, target_sell, dealer_input, client_input) ==
    IF dealer_input = None \/ client_input = None
    THEN PlanOutcome("insufficient_funds", c)
    ELSE PlanChange(c,
                    [PlanOutcome("ok", c)
                        EXCEPT !.target_buy = target_buy,
                               !.target_sell = target_sell,
                               !.dealer_input = dealer_input,
                               !.client_input = client_input,
                               !.inputs = <<[txid |-> dealer_input.txid,
                                             vout |-> dealer_input.vout],
                                            [txid |-> client_input.txid,
                                             vout |-> client_input.vout]>>],
                    DealerChange(UtxoAmount(dealer_input), target_buy),
                    ClientChange(UtxoAmount(client_input), target_sell, FlatFee))

\* the selection of one input per leg against the quantized targets
PlanTargets(c, target_buy, target_sell) ==
    IF IsRaised(target_buy) \/ IsRaised(target_sell)
    THEN PlanOutcome("invalid_operation", c)
    ELSE PlanInputs(c, target_buy, target_sell,
                    FirstEligible(c.dealer_utxos, c.rfq.asset_to_buy, target_buy),
                    FirstEligible(c.client_utxos, c.rfq.asset_to_sell,
                                  ClientThreshold(target_sell)))

\* create_atomic_settlement up to its fee-policy check: listing, targets,
\* input selection, fee and change, given the two listings the node returns
SettlementSelected(r, q, dealer_utxos, client_utxos) ==
    PlanTargets([rfq |-> r, quote |-> q,
                 dealer_utxos |-> dealer_utxos, client_utxos |-> client_utxos],
                TargetAmount(q.exact_amount_buy), TargetAmount(q.exact_amount_sell))

\* create_atomic_settlement from there to createpsbt: inputs, protected
\* address, outputs and the unsigned PSET, given the import result; a call
\* that raised before has nothing more to do
SettlementCreated(r, q, sel, import_result) ==
    IF sel.status # "ok" THEN sel
    ELSE PlanProtected(r, q, sel,
                       build_joint_timelocked_address(r.client_address,
                                                      q.dealer_address,
                                                      import_result))

\* the rest of create_atomic_settlement: the gettxout loop, utxoupdatepsbt
\* and blindpsbt, given which gettxout call, if any, returns nothing
SettlementBlinded(created, txout_missing) ==
    IF created.status # "ok" THEN created
    ELSE IF txout_missing # 0
    THEN [created EXCEPT !.status = "missing_utxo",
                         !.calls = created.calls \o GettxoutCalls(txout_missing)]
    ELSE [created EXCEPT !.calls = created.calls \o GettxoutCalls(0)
                                   \o <<"utxoupdatepsbt", "blindpsbt">>,
                         !.pset = [blinded |-> [inputs |-> created.inputs,
                                                outputs |-> created.outputs]]]

----------------------------------------------------------------------------
(* LiquidRFQProtocol.sign_and_broadcast                                    *)

ExecOutcome(status, calls, dealer_signed, client_signed, txid) ==
    [status |-> status, calls |-> calls,
     dealer_complete |-> dealer_signed.complete,
     client_complete |-> client_signed.complete, txid |-> txid]

\* a finalization whose result is broadcast without looking at its flag
Finalize_AlwaysBroadcast(signing, dealer_signed, client_signed, final_tx) ==
    [final_complete |-> final_tx.complete]
    @@ ExecOutcome("ok",
                   signing \o <<[rpc |-> "finalizepsbt", arg |-> client_signed.psbt],
                                [rpc |-> "sendrawtransaction", arg |-> final_tx.hex]>>,
                   dealer_signed, client_signed, [txid_of |-> final_tx.hex])

\* finalizepsbt, its check, and sendrawtransaction; the outcome keeps the
\* flag finalizepsbt reported
Finalize(signing, dealer_signed, client_signed, final_tx) ==
    [final_complete |-> final_tx.complete]
    @@ (IF ~final_tx.complete
        THEN ExecOutcome("finalization_failed",
                         signing \o <<[rpc |-> "finalizepsbt", arg |-> client_signed.psbt]>>,
                         dealer_signed, client_signed, None)
        ELSE ExecOutcome("ok",
                         signing \o <<[rpc |-> "finalizepsbt", arg |-> client_signed.psbt],
                                      [rpc |-> "sendrawtransaction", arg |-> final_tx.hex]>>,
                         dealer_signed, client_signed, [txid_of |-> final_tx.hex]))

\* a check that inspects the dealer's flag as well as the client's
SignedByBoth_EitherFlag(pset, dealer_signed, client_signed, final_complete) ==
    IF ~dealer_signed.complete \/ ~client_signed.complete
    THEN ExecOutcome("signing_incomplete",
                     <<[rpc |-> "walletprocesspsbt", arg |-> pset],
                       [rpc |-> "walletprocesspsbt", arg |-> dealer_signed.psbt]>>,
                     dealer_signed, client_signed, None)
    ELSE Finalize(<<[rpc |-> "walletprocesspsbt", arg |-> pset],
                    [rpc |-> "walletprocesspsbt", arg |-> dealer_signed.psbt]>>,
                  dealer_signed, client_signed,
                  [hex |-> [final |-> client_signed.psbt], complete |-> final_complete])

\* the check made after both walletprocesspsbt calls
SignedByBoth(pset, dealer_signed, client_signed, final_complete) ==
    IF ~client_signed.complete
    THEN ExecOutcome("signing_incomplete",
                     <<[rpc |-> "walletprocesspsbt", arg |-> pset],
                       [rpc |-> "walletprocesspsbt", arg |-> dealer_signed.psbt]>>,
                     dealer_signed, client_signed, None)
    ELSE Finalize(<<[rpc |-> "walletprocesspsbt", arg |-> pset],
                    [rpc |-> "walletprocesspsbt", arg |-> dealer_signed.psbt]>>,
                  dealer_signed, client_signed,
                  [hex |-> [final |-> client_signed.psbt], complete |-> final_complete])

\* the outcome of sign_and_broadcast given the "complete" flags the node
\* reports for the dealer's signing, the client's signing and finalizepsbt
sign_and_broadcast(pset, dealer_complete, client_complete, final_complete) ==
    SignedByBoth(pset,
                 [psbt |-> [signed |-> pset], complete |-> dealer_complete],
                 [psbt |-> [signed |-> [signed |-> pset]], complete |-> client_complete],
                 final_complete)

----------------------------------------------------------------------------
(* Records as a verifier may receive them: the signed record, or the       *)
(* signed record with one field other than the signature changed           *)

Assets == {LbtcAsset, UsdtAsset, OtherAsset}

\* a Decimal with one digit of the coefficient changed, the sign flipped,
\* or the same value written with one more trailing zero
TamperedAmounts(d) ==
    {Dec(d.sign, Strip([d.int EXCEPT ![i] = (d.int[i] + 1) % 10]), d.exp) :
        i \in 1..Len(d.int)}
    \cup {Dec(1 - d.sign, d.int, d.exp), Dec(d.sign, d.int \o <<0>>, d.exp - 1)}

TamperedRfqs(r) ==
    {[r EXCEPT !.rfq_id = RfqId("mallory_addr", r.expiry_time)],
     [r EXCEPT !.client_address = "mallory_addr"],
     [r EXCEPT !.expiry_time = r.expiry_time + 1]}
    \cup {[r EXCEPT !.asset_to_sell = a] : a \in Assets \ {r.asset_to_sell}}
    \cup {[r EXCEPT !.asset_to_buy = a] : a \in Assets \ {r.asset_to_buy}}
    \cup {[r EXCEPT !.approx_amount = d] : d \in TamperedAmounts(r.approx_amount)}

TamperedQuotes(q) ==
    {[q EXCEPT !.rfq_id = RfqId("mallory_addr", q.expiry_time)],
     [q EXCEPT !.dealer_id = "Dealer_Beta"],
     [q EXCEPT !.dealer_address = "mallory_addr"],
     [q EXCEPT !.expiry_time = q.expiry_time + 1]}
    \cup {[q EXCEPT !.exact_amount_sell = d] : d \in TamperedAmounts(q.exact_amount_sell)}
    \cup {[q EXCEPT !.exact_amount_buy = d] : d \in TamperedAmounts(q.exact_amount_buy)}
    \cup {[q EXCEPT !.price = d] : d \in TamperedAmounts(q.price)}

----------------------------------------------------------------------------
(* Actions                                                                 *)

Init ==
    /\ now = 0
    /\ rfq = None
    /\ quote = None
    /\ qres = None
    /\ plan = None
    /\ exec = None
    /\ vres = None

\* time passes
Tick ==
    /\ \E d \in TickSteps :
          /\ now + d <= MaxNow
          /\ now' = now + d
    /\ UNCHANGED <<rfq, quote, qres, plan, exec, vres>>

\* the client opens a negotiation with a new RFQ
CreateRfq ==
    /\ \E args \in RfqArgs :
          rfq' = create_rfq(ClientAddr, args[1], args[2], args[3], args[4], now)
    /\ quote' = None
    /\ qres' = None
    /\ plan' = None
    /\ exec' = None
    /\ vres' = None
    /\ UNCHANGED now

\* what the caller of a quote operation is left with
QuoteReturned(op, args, result) ==
    /\ quote' = IF result = None \/ result = Raised THEN None ELSE result
    /\ qres' = QuoteOutcome(op, args, result, now)

\* the desk answers the RFQ: OTCDesk.process_rfq
ProcessRfq ==
    /\ rfq # None
    /\ QuoteReturned("process_rfq", <<>>, process_rfq(rfq, now))
    /\ plan' = None
    /\ exec' = None
    /\ vres' = None
    /\ UNCHANGED <<now, rfq>>

\* a dealer answers with amounts of its own choice: dealer_quote called directly
DealerQuote ==
    /\ rfq # None
    /\ \E args \in DirectQuoteArgs :
          QuoteReturned("dealer_quote", args,
                        dealer_quote(rfq, DealerAddr, DeskId, args[1], args[2], now))
    /\ plan' = None
    /\ exec' = None
    /\ vres' = None
    /\ UNCHANGED <<now, rfq>>

\* create_atomic_settlement(rfq, quote) against the node's current answers;
\* the outcome is kept with the time of the call and the import result the
\* node gave (None when importdescriptors was not reached)
CreateAtomicSettlement ==
    /\ rfq # None
    /\ quote # None
    /\ \E dl \in DealerListings, cl \in ClientListings :
          \E sel \in {SettlementSelected(rfq, quote, dl, cl)} :
             \E imp \in ImportAnswers(sel) :
                \E created \in {SettlementCreated(rfq, quote, sel, imp)} :
                   \E tm \in TxoutAnswers(created) :
                      plan' = [at |-> now, import_result |-> imp]
                              @@ SettlementBlinded(created, tm)
    /\ exec' = None
    /\ UNCHANGED <<now, rfq, quote, qres, vres>>

\* what is kept of the outcome of an earlier call
PlanSummary(p) ==
    [status |-> p.status, import_result |-> p.import_result,
     dealer_utxos |-> p.dealer_utxos, client_utxos |-> p.client_utxos,
     dealer_input |-> p.dealer_input, client_input |-> p.client_input,
     fee |-> p.fee, inputs |-> p.inputs, outputs |-> p.outputs,
     descriptor |-> p.descriptor]

\* create_atomic_settlement(rfq, quote) invoked again while the node lists
\* the same UTXOs as in the preceding call; the outcome is kept together
\* with that of the preceding call
CreateAtomicSettlementAgain ==
    /\ rfq # None
    /\ quote # None
    /\ plan # None
    /\ \E sel \in {SettlementSelected(rfq, quote, plan.dealer_utxos, plan.client_utxos)} :
          \E imp \in ImportAnswers(sel) :
             \E created \in {SettlementCreated(rfq, quote, sel, imp)} :
                \E tm \in TxoutAnswers(created) :
                   plan' = [at |-> now, import_result |-> imp,
                            previous |-> PlanSummary(plan)]
                           @@ SettlementBlinded(created, tm)
    /\ exec' = None
    /\ UNCHANGED <<now, rfq, quote, qres, vres>>

\* sign_and_broadcast(pset, ...) on the PSET of a successful plan
SignAndBroadcast ==
    /\ plan # None
    /\ plan.status = "ok"
    /\ \E dc \in BOOLEAN, cc \in BOOLEAN, fc \in BOOLEAN :
          exec' = sign_and_broadcast(plan.pset, dc, cc, fc)
    /\ UNCHANGED <<now, rfq, quote, qres, plan, vres>>

\* verify_rfq on the RFQ as received
VerifyRfq ==
    /\ rfq # None
    /\ \E r \in {rfq} \cup TamperedRfqs(rfq) :
          vres' = [kind |-> "rfq", record |-> r, ok |-> verify_rfq(r)]
    /\ UNCHANGED <<now, rfq, quote, qres, plan, exec>>

\* verify_quote on the Quote as received
VerifyQuote ==
    /\ quote # None
    /\ \E q \in {quote} \cup TamperedQuotes(quote) :
          vres' = [kind |-> "quote", record |-> q, ok |-> verify_quote(q)]
    /\ UNCHANGED <<now, rfq, quote, qres, plan, exec>>

Next ==
    \/ Tick
    \/ CreateRfq
    \/ ProcessRfq
    \/ DealerQuote
    \/ CreateAtomicSettlement
    \/ CreateAtomicSettlementAgain
    \/ SignAndBroadcast

Spec == Init /\ [][Next]_vars

\* request and quote only
NextQuote ==
    \/ Tick
    \/ CreateRfq
    \/ ProcessRfq
    \/ DealerQuote

SpecQuote == Init /\ [][NextQuote]_vars

\* request, quote and settlement planning
NextPlan ==
    \/ Tick
    \/ CreateRfq
    \/ ProcessRfq
    \/ DealerQuote
    \/ CreateAtomicSettlement

SpecPlan == Init /\ [][NextPlan]_vars

\* one negotiation with the desk, planned and executed
NextExec ==
    \/ CreateRfq
    \/ ProcessRfq
    \/ CreateAtomicSettlement
    \/ SignAndBroadcast

SpecExec == Init /\ [][NextExec]_vars

\* one negotiation with the desk, planned and planned again
NextReplan ==
    \/ CreateRfq
    \/ ProcessRfq
    \/ CreateAtomicSettlement
    \/ CreateAtomicSettlementAgain

SpecReplan == Init /\ [][NextReplan]_vars

\* negotiation and verification of the signed messages only
NextVerify ==
    \/ CreateRfq
    \/ ProcessRfq
    \/ DealerQuote
    \/ VerifyRfq
    \/ VerifyQuote

SpecVerify == Init /\ [][NextVerify]_vars

----------------------------------------------------------------------------
(* Exact decimal arithmetic, the reference the stated equations are read   *)
(* in: no working precision, one rounding where a rounding is named        *)

\* d written at the exponent e <= d.exp
ShiftedTo(d, e) == Dec(d.sign, NatShift(d.int, d.exp - e), e)

ExactAdd(a, b) ==
    AddAligned(ShiftedTo(a, Min(a.exp, b.exp)), ShiftedTo(b, Min(a.exp, b.exp)),
               Min(a.exp, b.exp))

ExactMul(a, b) ==
    Dec(IF a.sign = b.sign THEN 0 ELSE 1, NatMul(a.int, b.int), a.exp + b.exp)

\* round8 of an exact decimal: one half-even rounding to 8 fractional digits
Round8(d) == Rescale(d, QuantExp)

\* the integer quotient qr.q of num / den rounded half-even on the remainder
RoundedQuotient(qr, den) ==
    IF NatCmp(NatAdd(qr.r, qr.r), den) > 0
       \/ (NatCmp(NatAdd(qr.r, qr.r), den) = 0 /\ qr.q[Len(qr.q)] % 2 = 1)
    THEN NatInc(qr.q) ELSE qr.q

Round8Scaled(sign, num, den) ==
    Dec(sign, RoundedQuotient(NatDivMod(num, den), Strip(den)), QuantExp)

\* round8(a / b) for b # 0: the exact quotient rounded once to 8 fractional
\* digits
Round8Quotient(a, b) ==
    Round8Scaled(IF a.sign = b.sign THEN 0 ELSE 1,
                 NatShift(a.int, Max(a.exp - b.exp - QuantExp, 0)),
                 NatShift(b.int, Max(0 - (a.exp - b.exp - QuantExp), 0)))

\* the pair the desk has a price for: 1 L-BTC = 50,000 L-USDt
PricedPairs == {<<LbtcAsset, UsdtAsset>>}

Range(s) == {s[i] : i \in DOMAIN s}

RpcNames(calls) == {calls[i].rpc : i \in DOMAIN calls}

\* whether a listing has no UTXO of the asset with amount >= threshold
NoEligible(utxos, asset, threshold) ==
    \A i \in DOMAIN utxos :
        utxos[i].asset # asset \/ DecLT(UtxoAmount(utxos[i]), threshold)

----------------------------------------------------------------------------
(* Claims                                                                  *)

\* C1: create_atomic_settlement rejects a Quote whose expiry_time has
\* elapsed: a planning call made at a time later than quote.expiry_time
\* fails and constructs no transaction, even when both legs are funded.
C1_ExpiredQuoteRejected ==
    (plan # None /\ plan.at > quote.expiry_time)
        => /\ plan.status # "ok"
           /\ plan.pset = None
           /\ "createpsbt" \notin Range(plan.calls)

\* C2: for every successful plan, dealer_change + quote.exact_amount_buy
\* equals the dealer UTXO's amount and client_change +
\* quote.exact_amount_sell + fee equals the client UTXO's amount, exactly,
\* with the quote's own amounts and the flat fee 0.0001.
C2_ChangeBalancesQuoteAmounts ==
    (plan # None /\ plan.status = "ok")
        => /\ DecEq(ExactAdd(plan.dealer_change, quote.exact_amount_buy),
                    UtxoAmount(plan.dealer_input))
           /\ DecEq(ExactAdd(ExactAdd(plan.client_change, quote.exact_amount_sell),
                             FlatFee),
                    UtxoAmount(plan.client_input))

C4_ExpiredRfqDeclined ==
    (qres # None /\ qres.op = "process_rfq" /\ qres.at > rfq.expiry_time)
        => (qres.result = "declined" /\ quote = None)

\* C5: process_rfq returns None whenever the pair (asset_to_sell,
\* asset_to_buy) is not one the desk has a price for, also when
\* asset_to_sell alone is the desk's supported sell asset.
C5_UnpricedPairDeclined ==
    (qres # None /\ qres.op = "process_rfq"
     /\ <<rfq.asset_to_sell, rfq.asset_to_buy>> \notin PricedPairs)
        => (qres.result = "declined" /\ quote = None)

\* C6: every Quote returned for an RFQ expires strictly before that RFQ:
\* quote.expiry_time < rfq.expiry_time.
C6_QuoteExpiresBeforeRfq ==
    quote # None => quote.expiry_time < rfq.expiry_time

\* C7: for every Quote produced from amounts of at most 8 fractional
\* digits, price equals the exact quotient exact_amount_buy /
\* exact_amount_sell rounded once to 8 fractional digits, and dealer_quote
\* does not fail to produce a price for such amounts (the sold amount not
\* zero).
C7_PriceIsRound8 ==
    /\ (quote # None /\ quote.exact_amount_buy.exp >= QuantExp
         /\ quote.exact_amount_sell.exp >= QuantExp)
            => DecEq(quote.price,
                     Round8Quotient(quote.exact_amount_buy, quote.exact_amount_sell))
    /\ (qres # None /\ qres.op = "dealer_quote"
         /\ DecParse(qres.args[1]).exp >= QuantExp
         /\ DecParse(qres.args[2]).exp >= QuantExp
         /\ ~IsZero(DecParse(qres.args[1])))
            => qres.result = "quote"

\* C8: every Quote returned by process_rfq has exact_amount_sell equal to
\* rfq.approx_amount and exact_amount_buy equal to the exact product
\* approx_amount * mid_price * (1 - spread) rounded once to 8 fractional
\* digits (mid_price * (1 - spread) is 49950.000 exactly).
C8_DeskAmounts ==
    (quote # None /\ qres.op = "process_rfq")
        => /\ quote.exact_amount_sell = rfq.approx_amount
           /\ DecEq(quote.exact_amount_buy,
                    Round8(ExactMul(rfq.approx_amount, QuotedPrice)))

\* C9: planning fails with the insufficient-funds error whenever the
\* dealer's listing has no UTXO of rfq.asset_to_buy with amount >=
\* quote.exact_amount_buy, or the client's listing has no UTXO of
\* rfq.asset_to_sell with amount >= quote.exact_amount_sell + fee; then no
\* plan is returned and nothing beyond the two listings has been invoked.
C9_NoEligibleUtxoFails ==
    (plan # None
     /\ (\/ NoEligible(plan.dealer_utxos, rfq.asset_to_buy, quote.exact_amount_buy)
         \/ NoEligible(plan.client_utxos, rfq.asset_to_sell,
                       ExactAdd(quote.exact_amount_sell, FlatFee))))
        => /\ plan.status = "insufficient_funds"
           /\ plan.calls = ListCalls
           /\ plan.pset = None

\* C10: a signed RFQ or Quote in which one field other than the signature
\* has been changed does not verify: verify_rfq / verify_quote return
\* false for every record that differs from the one that was signed.
C10_TamperedNeverVerifies ==
    vres # None
        => /\ (vres.kind = "rfq" /\ vres.record # rfq) => ~vres.ok
           /\ (vres.kind = "quote" /\ vres.record # quote) => ~vres.ok

\* a Quote with one digit of the bought amount changed was verified
C10_Witness ==
    /\ vres # None
    /\ vres.kind = "quote"
    /\ vres.record.exact_amount_buy # quote.exact_amount_buy
    /\ vres.record.exact_amount_buy.exp = quote.exact_amount_buy.exp
    /\ vres.record.exact_amount_buy.sign = quote.exact_amount_buy.sign
    /\ ~vres.ok

\* C11: verify_rfq is true for every RFQ as create_rfq returned it: the
\* payload rebuilt from the stored fields is the payload that was signed,
\* whatever the approx_amount.
C11_CreatedRfqVerifies ==
    (vres # None /\ vres.kind = "rfq" /\ vres.record = rfq)
        => /\ vres.ok
           /\ rfq.client_signature.message.approx_amount = DecStr(rfq.approx_amount)
           /\ rfq.client_signature.message.expiry_time = rfq.expiry_time

\* an RFQ whose amount is written with an exponent was verified as returned
C11_Witness ==
    /\ vres # None
    /\ vres.kind = "rfq"
    /\ vres.record = rfq
    /\ rfq.approx_amount.exp = -7
    /\ "E" \in Range(DecStr(rfq.approx_amount))
    /\ vres.ok

\* the names of the RPC calls a handler made, in order
RpcSequence(calls) == [i \in DOMAIN calls |-> calls[i].rpc]

\* C12: sign_and_broadcast calls, in this order and each at most once, the
\* dealer's walletprocesspsbt on the PSET, the client's walletprocesspsbt on
\* what the dealer's call returned, finalizepsbt on what the client's call
\* returned, and sendrawtransaction; sendrawtransaction is called only when
\* finalizepsbt reported complete, and otherwise the call fails with the
\* finalization error and nothing is broadcast.
C12_ExecutorCallOrder ==
    exec # None
        => /\ RpcSequence(exec.calls) \in
                 {<<"walletprocesspsbt", "walletprocesspsbt">>,
                  <<"walletprocesspsbt", "walletprocesspsbt", "finalizepsbt">>,
                  <<"walletprocesspsbt", "walletprocesspsbt", "finalizepsbt",
                    "sendrawtransaction">>}
           /\ exec.calls[1].arg = plan.pset
           /\ exec.calls[2].arg = [signed |-> exec.calls[1].arg]
           /\ Len(exec.calls) >= 3
                 => exec.calls[3].arg = [signed |-> exec.calls[2].arg]
           /\ "sendrawtransaction" \in RpcNames(exec.calls)
                 => (exec.final_complete /\ exec.status = "ok")
           /\ (Len(exec.calls) >= 3 /\ ~exec.final_complete)
                 => /\ exec.status = "finalization_failed"
                    /\ exec.txid = None
                    /\ "sendrawtransaction" \notin RpcNames(exec.calls)

\* finalizepsbt reported not complete after both signing calls
C12_Witness ==
    /\ exec # None
    /\ Len(exec.calls) = 3
    /\ ~exec.final_complete
    /\ exec.status = "finalization_failed"

\* how many of the two change amounts exceed one minimal unit
ChangeCount(dealer_change, client_change) ==
    (IF DecGT(dealer_change, MinUnit) THEN 1 ELSE 0)
    + (IF DecGT(client_change, MinUnit) THEN 1 ELSE 0)

\* whether output o pays the amount (compared by value) of the asset to the
\* address
Pays(o, address, asset, amount) ==
    o.address = address /\ o.asset = asset /\ DecEq(DecParse(o.amount), amount)

\* C13: the outputs of every successful plan are, in this order: (a)
\* exact_amount_buy of asset_to_buy to client_address; (b) exact_amount_sell
\* of asset_to_sell to the protected address (the blinded address derived
\* from the plan's descriptor), never the dealer's plain address; (c) the dealer's change to the dealer's plain address, exactly
\* when dealer_change > 0.00000001; (d) the client's change to the client's
\* address, exactly when client_change > 0.00000001; (e) the fee output.
C13_OutputOrder ==
    (plan # None /\ plan.status = "ok")
        => /\ Len(plan.outputs) = 3 + ChangeCount(plan.dealer_change, plan.client_change)
           /\ Pays(plan.outputs[1], rfq.client_address, rfq.asset_to_buy,
                   quote.exact_amount_buy)
           /\ Pays(plan.outputs[2], [blinded |-> [derived |-> plan.descriptor]],
                   rfq.asset_to_sell, quote.exact_amount_sell)
           /\ DecGT(plan.dealer_change, MinUnit)
                 => Pays(plan.outputs[3], quote.dealer_address, rfq.asset_to_buy,
                         plan.dealer_change)
           /\ DecGT(plan.client_change, MinUnit)
                 => Pays(plan.outputs[Len(plan.outputs) - 1], rfq.client_address,
                         rfq.asset_to_sell, plan.client_change)
           /\ plan.outputs[Len(plan.outputs)] = FeeOutput(FlatFee)

\* C14: build_joint_timelocked_address fails with the descriptor-import
\* error exactly when importdescriptors reports a failure whose reason is
\* not "already exists" (the error message does not contain "exists"); a
\* failure because the descriptor exists is treated as success, and the
\* protected address and the descriptor are returned as after a success.
C14_ImportFailureHandling ==
    (plan # None /\ plan.import_result # None)
        => /\ (plan.status = "import_failed")
                 <=> (~plan.import_result.success
                      /\ plan.import_result.error # "exists")
           /\ plan.status = "import_failed"
                 => /\ plan.descriptor = None
                    /\ plan.outputs = <<>>
                    /\ "deriveaddresses" \notin Range(plan.calls)
           /\ plan.status # "import_failed"
                 => /\ plan.descriptor
                          = JointDescriptor(rfq.client_address, quote.dealer_address,
                                            CsvDelay)
                    /\ plan.outputs[2].address
                          = [blinded |-> [derived |-> plan.descriptor]]
                    /\ "createblindedaddress" \in Range(plan.calls)

\* an import that failed because the descriptor exists was followed by a
\* successful plan
C14_Witness ==
    /\ plan # None
    /\ plan.import_result # None
    /\ ~plan.import_result.success
    /\ plan.import_result.error = "exists"
    /\ plan.status = "ok"

\* whether an import result lets the registration go on
Registered(import_result) ==
    import_result # None /\ (import_result.success \/ import_result.error = "exists")

\* C15: create_atomic_settlement invoked twice with the same rfq, the same
\* quote and an identical UTXO listing selects the same two inputs with the
\* same fee both times, and yields the same outputs and the same protection
\* descriptor whenever both calls come to build them; after a successful
\* call, a second call whose import succeeds or finds the descriptor
\* already imported succeeds with the same plan unless a gettxout fails.
C15_PlanningIdempotent ==
    (plan # None /\ "previous" \in DOMAIN plan)
        => /\ plan.dealer_utxos = plan.previous.dealer_utxos
           /\ plan.client_utxos = plan.previous.client_utxos
           /\ plan.dealer_input = plan.previous.dealer_input
           /\ plan.client_input = plan.previous.client_input
           /\ plan.fee = plan.previous.fee
           /\ (plan.outputs # <<>> /\ plan.previous.outputs # <<>>)
                 => /\ plan.inputs = plan.previous.inputs
                    /\ plan.outputs = plan.previous.outputs
                    /\ plan.descriptor = plan.previous.descriptor
           /\ (plan.previous.status = "ok" /\ Registered(plan.import_result)
               /\ plan.status # "missing_utxo")
                 => /\ plan.status = "ok"
                    /\ plan.outputs = plan.previous.outputs
                    /\ plan.descriptor = plan.previous.descriptor

\* a successful call whose import succeeded was followed by a successful
\* call that found the descriptor already imported
C15_Witness ==
    /\ plan # None
    /\ "previous" \in DOMAIN plan
    /\ plan.previous.status = "ok"
    /\ plan.previous.import_result.success
    /\ plan.status = "ok"
    /\ ~plan.import_result.success
    /\ plan.import_result.error = "exists"

\* the exact sum of the amounts of the outputs that pay the given asset
RECURSIVE OutputSum(_, _)
OutputSum(outs, asset) ==
    IF outs = <<>> THEN DecZero
    ELSE LET rest == OutputSum(Tail(outs), asset)
         IN  IF Head(outs).asset = asset
             THEN ExactAdd(DecParse(Head(outs).amount), rest)
             ELSE rest

\* C16: every transaction skeleton built by create_atomic_settlement
\* balances per asset: the amounts of the asset_to_buy outputs sum to the
\* dealer input's amount, and the amounts of the asset_to_sell outputs plus
\* the fee sum to the client input's amount, also when a computed change
\* equals exactly one minimal unit and its change output is omitted.
C16_SkeletonBalances ==
    (plan # None /\ plan.outputs # <<>>)
        => /\ DecEq(OutputSum(plan.outputs, rfq.asset_to_buy),
                    UtxoAmount(plan.dealer_input))
           /\ DecEq(ExactAdd(OutputSum(plan.outputs, rfq.asset_to_sell),
                             DecParse(plan.outputs[Len(plan.outputs)].amount)),
                    UtxoAmount(plan.client_input))

============================================================================
